---------------------------- MODULE Spec2Model ----------------------------
(***************************************************************************)
(* A model of the hologram assistant: the capture loop, the dialogue       *)
(* orchestrator (process_speech / speak_response_synchronized), the        *)
(* silence monitor thread and the video manager with its playback workers. *)
(*                                                                         *)
(* Atomicity: one step per source statement that reads or writes shared    *)
(* state (the interpreter runs one thread at a time and may switch between *)
(* any two statements); a blocking call is split into its start and its    *)
(* return.  Texts are sequences of one-character strings.                  *)
(***************************************************************************)
EXTENDS Integers, Sequences, FiniteSets, TLC

(***************************************************************************)
(* Texts                                                                   *)
(***************************************************************************)
LowerCase == <<"a","b","c","d","e","f","g","h","i","j","k","l","m",
               "n","o","p","q","r","s","t","u","v","w","x","y","z">>

UpperCase == <<"A","B","C","D","E","F","G","H","I","J","K","L","M",
               "N","O","P","Q","R","S","T","U","V","W","X","Y","Z">>

Digits == {"0","1","2","3","4","5","6","7","8","9"}

Range(f) == {f[i] : i \in DOMAIN f}

\* \w of the regular expressions: letters, digits and the underscore.
IsWordChar(ch) == ch \in Range(LowerCase) \cup Range(UpperCase) \cup Digits \cup {"_"}

\* \s of the regular expressions (and the separators of str.split / str.strip).
IsSpace(ch) == ch \in {" ", "\n", "\t"}

\* The punctuation kept by [^\w\s.,!?;:'-].
IsKeptPunct(ch) == ch \in {".", ",", "!", "?", ";", ":", "'", "-"}

\* str.lower() on one character.
LowerChar(ch) ==
    IF ch \in Range(UpperCase)
    THEN LowerCase[CHOOSE i \in DOMAIN UpperCase : UpperCase[i] = ch]
    ELSE ch

Lower(s) == [i \in DOMAIN s |-> LowerChar(s[i])]

\* str.strip(): drop leading and trailing whitespace.
Strip(s) ==
    IF \A i \in DOMAIN s : IsSpace(s[i]) THEN <<>>
    ELSE SubSeq(s,
                CHOOSE i \in DOMAIN s :
                    ~IsSpace(s[i]) /\ \A j \in 1..(i - 1) : IsSpace(s[j]),
                CHOOSE i \in DOMAIN s :
                    ~IsSpace(s[i]) /\ \A j \in (i + 1)..Len(s) : IsSpace(s[j]))

\* The text has c repeated k times at position i.
Rep(s, i, c, k) == \A j \in 0..(k - 1) : i + j <= Len(s) /\ s[i + j] = c

\* Length of the longest run of characters other than c starting at i: [^c]*.
RunLen(s, i, c) ==
    IF i > Len(s) THEN 0
    ELSE (CHOOSE j \in i..(Len(s) + 1) :
             /\ j <= Len(s) => s[j] = c
             /\ \A m \in i..(j - 1) : s[m] # c) - i

\* re.sub of  c{k} ([^c]{min,}) c{k}  over the whole text: leftmost matches,
\* not overlapping; a match is replaced by its group (keep) or by nothing.
\* sub[i] is the result for the text from position i on.
SubDelim(s, c, k, min, keep) ==
    LET sub[i \in 1..(Len(s) + 1)] ==
            IF i > Len(s) THEN <<>>
            ELSE IF /\ Rep(s, i, c, k)
                    /\ RunLen(s, i + k, c) >= min
                    /\ Rep(s, i + k + RunLen(s, i + k, c), c, k)
                 THEN (IF keep THEN SubSeq(s, i + k, i + k + RunLen(s, i + k, c) - 1)
                               ELSE <<>>)
                      \o sub[i + 2 * k + RunLen(s, i + k, c)]
                 ELSE <<s[i]>> \o sub[i + 1]
    IN  sub[1]

\* re.sub(r'[^\w\s.,!?;:\'-]', '', text); the symbols of the next
\* substitution, [#@$%^&*(){}[\]<>+=|\\~`"], are all outside this class.
KeepSpeakable(s) ==
    SelectSeq(s, LAMBDA ch : IsWordChar(ch) \/ IsSpace(ch) \/ IsKeptPunct(ch))

\* re.sub(r'\s+', ' ', text): every run of whitespace becomes one space.
CollapseSpace(s) ==
    LET rest[i \in 1..(Len(s) + 1)] ==
            IF i > Len(s) THEN <<>>
            ELSE IF ~IsSpace(s[i]) THEN <<s[i]>> \o rest[i + 1]
            ELSE IF i > 1 /\ IsSpace(s[i - 1]) THEN rest[i + 1]
            ELSE <<" ">> \o rest[i + 1]
    IN  rest[1]

\* One step of clean_response_text applied to the text in S.
Sub(S, c, k, min, keep) == {SubDelim(s, c, k, min, keep) : s \in S}

clean_response_text(text) ==
    IF text = <<>> THEN <<>>
    ELSE LET t1 == Sub({text}, "*", 1, 0, FALSE)
             t2 == Sub(t1, "*", 2, 1, TRUE)
             t3 == Sub(t2, "*", 1, 1, TRUE)
             t4 == Sub(t3, "_", 2, 1, TRUE)
             t5 == Sub(t4, "_", 1, 1, TRUE)
             t6 == Sub(t5, "~", 2, 1, TRUE)
             t7 == {KeepSpeakable(s) : s \in t6}
             t8 == {CollapseSpace(s) : s \in t7}
         IN  CHOOSE r \in {Strip(s) : s \in t8} : TRUE

(***************************************************************************)
(* is_question_or_command                                                  *)
(***************************************************************************)
\* str.split(): the maximal runs of non-whitespace characters, in order.
\* word[i] is the list of the words that start at position i or later.
Split(s) ==
    LET word[i \in 1..(Len(s) + 1)] ==
            IF i > Len(s) THEN <<>>
            ELSE IF IsSpace(s[i]) \/ (i > 1 /\ ~IsSpace(s[i - 1])) THEN word[i + 1]
            ELSE <<SubSeq(s, i, CHOOSE j \in i..Len(s) :
                                   /\ \A m \in i..j : ~IsSpace(s[m])
                                   /\ j < Len(s) => IsSpace(s[j + 1]))>>
                 \o word[i + 1]
    IN  word[1]

noise_words ==
    {<<"u","m">>, <<"u","h">>, <<"h","m","m">>, <<"a","h">>,
     <<"o","h">>, <<"h","e","y">>, <<"h","i">>, <<"h","e","l","l","o">>}

question_words ==
    {<<"w","h","a","t">>, <<"h","o","w">>, <<"w","h","y">>, <<"w","h","e","n">>,
     <<"w","h","e","r","e">>, <<"w","h","o">>, <<"w","h","i","c","h">>, <<"c","a","n">>,
     <<"c","o","u","l","d">>, <<"w","i","l","l">>, <<"w","o","u","l","d">>, <<"s","h","o","u","l","d">>,
     <<"i","s">>, <<"a","r","e">>, <<"d","o">>, <<"d","o","e","s">>,
     <<"d","i","d">>, <<"t","e","l","l">>, <<"e","x","p","l","a","i","n">>}

command_words ==
    {<<"p","l","a","y">>, <<"s","h","o","w">>, <<"f","i","n","d">>, <<"s","e","a","r","c","h">>,
     <<"c","a","l","c","u","l","a","t","e">>, <<"h","e","l","p">>, <<"s","t","o","p">>, <<"s","t","a","r","t">>,
     <<"o","p","e","n">>, <<"c","l","o","s","e">>, <<"t","u","r","n">>, <<"s","e","t">>,
     <<"g","e","t">>, <<"m","a","k","e">>, <<"c","r","e","a","t","e">>, <<"g","i","v","e">>}

\* Mutant: only the first word is looked at.
LeadWordOnly(text) ==
    IF text = <<>> THEN FALSE
    ELSE \E text_lower \in {Strip(Lower(text))} :
         \E words \in {Split(text_lower)} :
            IF Len(text_lower) < 3 THEN FALSE
            ELSE IF text_lower \in noise_words THEN FALSE
            ELSE IF "?" \in Range(text) THEN TRUE
            ELSE words # <<>> /\ (words[1] \in question_words \/ words[1] \in command_words)

is_question_or_command(text) ==
    IF text = <<>> THEN FALSE
    ELSE \E text_lower \in {Strip(Lower(text))} :
         \E words \in {Split(text_lower)} :
            IF Len(text_lower) < 3 THEN FALSE
            ELSE IF text_lower \in noise_words THEN FALSE
            ELSE IF "?" \in Range(text) THEN TRUE
            ELSE IF words # <<>> /\ (words[1] \in question_words \/ words[1] \in command_words)
                 THEN TRUE
            ELSE IF \E word \in question_words \cup command_words : word \in Range(words)
                 THEN TRUE
            ELSE Len(words) >= 3

(***************************************************************************)
(* Inputs of the model                                                     *)
(***************************************************************************)
\* The phrase spoken when process_speech catches an exception.
Fallback ==
    <<"S","o","r","r","y",","," ","I"," ","h","a","d"," ","t","r","o","u","b","l","e",
      " ","p","r","o","c","e","s","s","i","n","g"," ","t","h","a","t",".">>

\* What recognize_speech may return (already stripped; <<>> is no match).
Utterances == { <<>>, <<"u","m">>, <<"s","t","o","p">> }

\* Words of the texts is_question_or_command is applied to: noise words, a
\* plain word, question and command words (one capitalised, one below three
\* characters, one with a full stop) and a word with a question mark.
Vocabulary ==
    { <<"u","m">>, <<"h","e","l","l","o">>, <<"t","e","a">>, <<"i","s">>,
      <<"s","t","o","p">>, <<"W","h","o">>, <<"a","?">>, <<"s","t","o","p",".">> }

\* The longest phrase, in words.
MaxWords == 3

\* The phrases of n words, the words one space apart.
RECURSIVE PhrasesOf(_)
PhrasesOf(n) ==
    IF n = 1 THEN Vocabulary
    ELSE {p \o <<" ">> \o w : p \in PhrasesOf(n - 1), w \in Vocabulary}

\* The texts: nothing, a blank, the phrases, and the single words with blanks
\* around them.
Phrases ==
    {<<>>, <<" ">>}
        \cup UNION {PhrasesOf(n) : n \in 1..MaxWords}
        \cup {<<" ">> \o w \o <<" ">> : w \in Vocabulary}

\* What get_bot_response may return.
Replies == { <<>>, <<"*","h","m","*">>, <<"*","*","H","i","*","*","!">> }

\* The characters of the short replies: the emphasis markers, a letter, the blank
\* and a punctuation mark.
Alphabet == {"*", "_", "~", "a", " ", "."}

\* The longest short reply, in characters.
MaxLen == 6

\* The short replies: every text get_bot_response may return, up to that
\* length and over those characters.
RawTexts == UNION {[1..n -> Alphabet] : n \in 0..MaxLen}

Segments == {"default", "talking"}

\* Frame counts of the video files considered: up to 20 seconds at 30 frames
\* per second.
MaxFrames == 600

\* What CAP_PROP_FPS reports: 0 when the container does not say.
RawFps == {0, 24, 25, 30}

\* The files test_video_file validates (they exist, open, and a first frame
\* is read), and a file it rejects.
NoVideo == [ok |-> FALSE, fps |-> 0, frames |-> 0]

ValidVideos == [ok : {TRUE}, fps : RawFps, frames : 1..MaxFrames]

\* A file longer than both segments: 20 seconds at 25 frames per second.
NominalVideo == [ok |-> TRUE, fps |-> 25, frames |-> 500]

\* Names a caller may pass to play_segment: the segments and names that are not
\* in self.segments.
SegmentNames == Segments \cup {"listening", ""}

\* The two threads that call play_segment.
Callers == {"main", "monitor"}

\* Thread objects that can be referenced at one time (by playback_thread and
\* by the joins in progress).
NThreads == 3

ThreadIds == 1..NThreads

\* main.py line 16: SILENCE_TIMEOUT = 15 (seconds)
SILENCE_TIMEOUT == 15

\* main.py line 263: time.sleep(5), the monitor's polling interval
PollInterval == 5

\* video_manager.py line 451: join(timeout=2.0)
JOIN_TIMEOUT == 2

\* main.py line 276: max_consecutive_empty = 10
max_consecutive_empty == 10

\* The age of last_speech_time is counted up to here.
MaxAge == 24

NoThread == [st |-> "none", seg |-> "default"]

\* play_segment, lines 300-303: the target of the new Thread.
LoopFor(video) == IF video THEN "_video_playback_loop" ELSE "_animated_loop"

\* No activation: seg is play_segment's local segment_name, name the argument
\* as it was passed, from the method that called stop_video, jt the thread
\* object a join waits for and w the seconds it has waited.
NoCall == [pc |-> "idle", seg |-> "default", name |-> "default", from |-> "play_segment",
           jt |-> 0, w |-> 0]

VARIABLES
    video_manager,          \* the chatbot has a video manager (it is not None)
    use_video,              \* HologramVideoManager.use_video
    is_listening,           \* HologramChatbot.is_listening
    target,                 \* the loop the worker of each Thread object runs
    current_mode,           \* HologramVideoManager.current_mode
    is_playing,             \* HologramVideoManager.is_playing
    stop_event,             \* HologramVideoManager.stop_event is set
    playback_thread,        \* id of the Thread object playback_thread refers to
    threads,                \* the referenced Thread objects: state and segment
    orphans,                \* segments of live workers nothing refers to any more
    call,                   \* each caller's activation of play_segment
    is_currently_speaking,  \* HologramChatbot.is_currently_speaking
    speaking_lock,          \* "free" or the holder of speaking_lock
    since_speech,           \* time.time() - last_speech_time, in whole seconds
    pc,                     \* where continuous_listening_loop is
    text,                   \* the utterance of the current iteration
    consecutive_empty,      \* continuous_listening_loop's local of that name
    opc,                    \* where process_speech / speak_response_synchronized is
    response,               \* the text passed to speak_response_synchronized
    in_fallback,            \* the call at line 248 is the one running
    exc,                    \* an exception is leaving speak_response_synchronized
    audio,                  \* playsound is playing
    events,                 \* what the current turn has done so far, in order
    mpc,                    \* where monitor_silence is
    time_since_speech,      \* monitor_silence's local of that name
    slept,                  \* seconds monitor_silence has spent in time.sleep(5)
    video,                  \* the file at video_path, as cv2.VideoCapture reports it
    fps,                    \* HologramVideoManager.fps
    total_frames,           \* HologramVideoManager.total_frames
    segments                \* HologramVideoManager.segments, in seconds

\* What no step of a running session changes, but for the threads' targets.
fileVars == <<video, fps, total_frames, segments>>

runVars == <<video_manager, use_video, is_listening, target, fileVars>>

vmVars == <<current_mode, is_playing, stop_event, playback_thread, threads, orphans>>

orchVars == <<opc, response, in_fallback, exc, audio, events>>

sessVars == <<is_currently_speaking, speaking_lock, since_speech>>

capVars == <<pc, text, consecutive_empty>>

monVars == <<mpc, time_since_speech, slept>>

vars == <<runVars, vmVars, call, sessVars, capVars, orchVars, monVars>>

\* A session that runs: with a video manager the video file was found
\* (use_video); which of the two loops the workers run makes no difference to
\* the orchestrator, the capture loop or the monitor.
(***************************************************************************)
(* HologramVideoManager.test_video_file                                    *)
(***************************************************************************)
\* lines 30-31 and 36-39 of __init__
DefaultSegments ==
    [s \in Segments |-> IF s = "default" THEN [start |-> 0, end |-> 12]
                                          ELSE [start |-> 13, end |-> 19]]

Min(a, b) == IF a <= b THEN a ELSE b

\* line 96: self.fps = max(test_cap.get(cv2.CAP_PROP_FPS), 25)
FpsOf(v) == IF v.fps >= 25 THEN v.fps ELSE 25

\* lines 104-107: video_duration = self.total_frames / self.fps, and
\* int(video_duration) of a duration that is not negative
DurationBelow(v, seconds) == v.frames < seconds * FpsOf(v)

IntDuration(v) == v.frames \div FpsOf(v)

\* lines 105-106: the talking segment's end for file v
TalkingEnd(v) ==
    IF DurationBelow(v, 19) THEN Min(19, IntDuration(v) - 1)
    ELSE DefaultSegments["talking"].end

\* self.segments once test_video_file has returned
SegmentsFor(v) ==
    IF v.ok THEN [DefaultSegments EXCEPT !["talking"].end = TalkingEnd(v)]
    ELSE DefaultSegments

\* The manager's attributes after line 46 for file v.
Tested(v) ==
    /\ video = v
    /\ fps = IF v.ok THEN FpsOf(v) ELSE 30
    /\ total_frames = IF v.ok THEN v.frames ELSE 0
    /\ segments = SegmentsFor(v)

\* In a running session the file, if it was validated, is the nominal one.
FileTested == Tested(IF use_video THEN NominalVideo ELSE NoVideo)

Init ==
    /\ video_manager \in BOOLEAN
    /\ use_video = video_manager
    /\ FileTested
    /\ is_listening = TRUE
    /\ target = [i \in ThreadIds |-> IF video_manager /\ i = 1 THEN LoopFor(TRUE) ELSE "none"]
    /\ current_mode = "default"
    /\ is_playing = video_manager
    /\ stop_event = FALSE
    /\ playback_thread = IF video_manager THEN 1 ELSE 0
    /\ threads = [i \in ThreadIds |->
                    IF video_manager /\ i = 1 THEN [st |-> "run", seg |-> "default"]
                    ELSE NoThread]
    /\ orphans = {}
    /\ call = [c \in Callers |-> NoCall]
    /\ is_currently_speaking = FALSE
    /\ speaking_lock = "free"
    /\ since_speech = 0
    /\ pc = "c281"
    /\ text = <<>>
    /\ consecutive_empty = 0
    /\ opc = "idle"
    /\ response = <<>>
    /\ in_fallback = FALSE
    /\ exc = FALSE
    /\ audio = FALSE
    /\ events = <<>>
    /\ mpc = "m255"
    /\ time_since_speech = 0
    /\ slept = 0

(***************************************************************************)
(* Thread objects                                                          *)
(***************************************************************************)
\* The thread objects some join in progress waits for.
JoinTargets(cl) == {cl[c].jt : c \in Callers} \ {0}

\* The thread table once only p and the join targets of cl are referenced:
\* an unreferenced object is dropped from the table.
Referenced(th, p, cl) ==
    [i \in ThreadIds |-> IF i = p \/ i \in JoinTargets(cl) THEN th[i] ELSE NoThread]

\* The unreferenced objects that are live workers go on running.
Orphaned(th, p, cl) ==
    {th[i].seg : i \in {j \in ThreadIds : j # p /\ j \notin JoinTargets(cl) /\ th[j].st = "run"}}

\* The targets of the thread objects of table th, those of tg.
Targets(th, tg) == [i \in ThreadIds |-> IF th[i].st = "none" THEN "none" ELSE tg[i]]

\* Thread.is_alive()
is_alive(i) == threads[i].st = "run"

\* Number of playback workers that are running.
AliveWorkers == Cardinality({i \in ThreadIds : threads[i].st = "run"}) + Cardinality(orphans)

(***************************************************************************)
(* HologramVideoManager.play_segment, one activation per caller            *)
(***************************************************************************)
\* Mutant: an unknown name is played as it is.
ResolveNothing(segment_name) == segment_name

\* play_segment(segment_name) is entered: lines 290-291 resolve the name.
Resolve(segment_name) == IF segment_name \in Segments THEN segment_name ELSE "default"

\* lines 288-293: the name is resolved and stop_video is called.
Enter(c, segment_name) ==
    call' = [call EXCEPT ![c] = [pc |-> "v446", seg |-> Resolve(segment_name),
                                 name |-> segment_name, from |-> "play_segment",
                                 jt |-> 0, w |-> 0]]

\* Where stop_video returns to: line 296 of play_segment, line 458 of cleanup.
AfterStop(c) == IF call[c].from = "cleanup" THEN "v458" ELSE "v296"

Goto(c, label) == call' = [call EXCEPT ![c].pc = label]

\* stop_video, line 446: if self.is_playing
StopVideoCheck(c) ==
    /\ call[c].pc = "v446"
    /\ Goto(c, IF is_playing THEN "v447" ELSE AfterStop(c))
    /\ UNCHANGED <<runVars, vmVars, sessVars, capVars, orchVars, monVars>>

\* stop_video, line 447: self.is_playing = False
StopVideoClearPlaying(c) ==
    /\ call[c].pc = "v447"
    /\ is_playing' = FALSE
    /\ Goto(c, "v448")
    /\ UNCHANGED <<runVars, current_mode, stop_event, playback_thread, threads,
                   orphans, sessVars, capVars, orchVars, monVars>>

\* stop_video, line 448: self.stop_event.set()
StopVideoSetEvent(c) ==
    /\ call[c].pc = "v448"
    /\ stop_event' = TRUE
    /\ Goto(c, "v450")
    /\ UNCHANGED <<runVars, current_mode, is_playing, playback_thread, threads,
                   orphans, sessVars, capVars, orchVars, monVars>>

\* stop_video, line 450: if self.playback_thread and self.playback_thread.is_alive()
StopVideoIsAlive(c) ==
    /\ call[c].pc = "v450"
    /\ Goto(c, IF playback_thread # 0 /\ is_alive(playback_thread) THEN "v451" ELSE AfterStop(c))
    /\ UNCHANGED <<runVars, vmVars, sessVars, capVars, orchVars, monVars>>

\* stop_video, line 451: self.playback_thread.join(timeout=2.0) begins on the
\* object playback_thread refers to now; joining a thread that was never
\* started raises RuntimeError.
StopVideoJoin(c) ==
    /\ call[c].pc = "v451"
    /\ IF threads[playback_thread].st = "new"
       THEN Goto(c, "exc")
       ELSE call' = [call EXCEPT ![c].pc = "join", ![c].jt = playback_thread]
    /\ UNCHANGED <<runVars, vmVars, sessVars, capVars, orchVars, monVars>>

\* The join ends; the caller's reference to the thread object goes.
JoinEnds(c) ==
    LET cl == [call EXCEPT ![c].pc = AfterStop(c), ![c].jt = 0, ![c].w = 0]
    IN  /\ call' = cl
        /\ threads' = Referenced(threads, playback_thread, cl)
        /\ target' = Targets(Referenced(threads, playback_thread, cl), target)
        /\ orphans' = orphans \cup Orphaned(threads, playback_thread, cl)
        /\ UNCHANGED <<fileVars, video_manager, use_video, is_listening, current_mode, is_playing, stop_event,
                       playback_thread, sessVars, capVars,
                       orchVars, monVars>>

\* The joined worker has exited: join returns.
JoinReturn(c) ==
    /\ call[c].pc = "join"
    /\ ~is_alive(call[c].jt)
    /\ JoinEnds(c)

\* The joined worker is still running after 2 seconds: join returns.
JoinTimeout(c) ==
    /\ call[c].pc = "join"
    /\ is_alive(call[c].jt)
    /\ JoinEnds(c)

\* Mutant: the mode becomes the name as it was passed.
SetModeAsPassed(c) ==
    /\ call[c].pc = "v296"
    /\ current_mode' = call[c].name
    /\ Goto(c, "v297")
    /\ UNCHANGED <<runVars, is_playing, stop_event, playback_thread, threads,
                   orphans, sessVars, capVars, orchVars, monVars>>

\* line 296: self.current_mode = segment_name
SetMode(c) ==
    /\ call[c].pc = "v296"
    /\ current_mode' = call[c].seg
    /\ Goto(c, "v297")
    /\ UNCHANGED <<runVars, is_playing, stop_event, playback_thread, threads,
                   orphans, sessVars, capVars, orchVars, monVars>>

\* line 297: self.stop_event.clear()
ClearEvent(c) ==
    /\ call[c].pc = "v297"
    /\ stop_event' = FALSE
    /\ Goto(c, "v298")
    /\ UNCHANGED <<runVars, current_mode, is_playing, playback_thread, threads,
                   orphans, sessVars, capVars, orchVars, monVars>>

\* line 298: self.is_playing = True
SetPlaying(c) ==
    /\ call[c].pc = "v298"
    /\ is_playing' = TRUE
    /\ Goto(c, "v301")
    /\ UNCHANGED <<runVars, current_mode, stop_event, playback_thread, threads,
                   orphans, sessVars, capVars, orchVars, monVars>>

\* lines 300-303: self.playback_thread = threading.Thread(..., args=(segment_name,))
\* The object playback_thread referred to loses that reference.
NewThread(c) ==
    /\ call[c].pc = "v301"
    /\ LET kept == Referenced(threads, 0, call)
           id == CHOOSE i \in ThreadIds :
                    /\ kept[i].st = "none"
                    /\ \A j \in ThreadIds : kept[j].st = "none" => i <= j
       IN  /\ threads' = [kept EXCEPT ![id] = [st |-> "new", seg |-> call[c].seg]]
           /\ target' = [Targets(kept, target) EXCEPT ![id] = LoopFor(use_video)]
           /\ playback_thread' = id
           /\ orphans' = orphans \cup Orphaned(threads, 0, call)
    /\ Goto(c, "v305")
    /\ UNCHANGED <<fileVars, video_manager, use_video, is_listening, current_mode, is_playing, stop_event, sessVars, capVars, orchVars, monVars>>

\* line 305: self.playback_thread.start(); starting a thread that was already
\* started raises RuntimeError.
StartThread(c) ==
    /\ call[c].pc = "v305"
    /\ IF threads[playback_thread].st = "new"
       THEN /\ threads' = [threads EXCEPT ![playback_thread].st = "run"]
            /\ Goto(c, "ret")
       ELSE /\ threads' = threads
            /\ Goto(c, "exc")
    /\ UNCHANGED <<runVars, current_mode, is_playing, stop_event, playback_thread,
                   orphans, sessVars, capVars, orchVars, monVars>>

(***************************************************************************)
(* The playback workers: _video_playback_loop / _animated_loop             *)
(***************************************************************************)
\* One evaluation of  while self.is_playing and not self.stop_event.is_set()
\* by the worker of thread object i: the worker pushes one more frame of its
\* segment and stays in the loop, or leaves the loop and exits.
WorkerLoop(i) ==
    /\ threads[i].st = "run"
    /\ threads' = IF is_playing /\ ~stop_event
                  THEN threads
                  ELSE [threads EXCEPT ![i].st = "dead"]
    /\ UNCHANGED <<runVars, current_mode, is_playing, stop_event, playback_thread,
                   orphans, call, sessVars, capVars, orchVars, monVars>>

\* The same for a live worker nothing refers to any more.
OrphanLoop(s) ==
    /\ s \in orphans
    /\ orphans' = IF is_playing /\ ~stop_event THEN orphans ELSE orphans \ {s}
    /\ UNCHANGED <<runVars, current_mode, is_playing, stop_event, playback_thread,
                   threads, call, sessVars, capVars, orchVars, monVars>>

(***************************************************************************)
(* HologramChatbot.monitor_silence                                         *)
(***************************************************************************)
\* line 252, while self.is_listening, and lines 254-255: time_since_speech = current_time - self.last_speech_time
MonitorReadTime ==
    /\ mpc = "m255"
    /\ is_listening
    /\ time_since_speech' = since_speech
    /\ mpc' = "m258"
    /\ UNCHANGED <<runVars, vmVars, call, sessVars, capVars, orchVars, slept>>

\* line 258: if not self.is_currently_speaking and time_since_speech >= SILENCE_TIMEOUT
MonitorCheckSpeaking ==
    /\ mpc = "m258"
    /\ mpc' = IF ~is_currently_speaking /\ time_since_speech >= SILENCE_TIMEOUT
              THEN "m259" ELSE "m263"
    /\ UNCHANGED <<runVars, vmVars, call, sessVars, capVars, orchVars,
                   time_since_speech, slept>>

\* Mutant: the monitor switches to default whatever the mode is.
MonitorSwitchAlways ==
    /\ mpc = "m259"
    /\ IF video_manager
       THEN /\ Enter("monitor", "default")
            /\ mpc' = "m261"
       ELSE /\ call' = call
            /\ mpc' = "m263"
    /\ UNCHANGED <<runVars, vmVars, sessVars, capVars, orchVars, time_since_speech,
                   slept>>

\* lines 259-261: if self.video_manager and self.video_manager.current_mode != "default":
\* self.video_manager.play_segment("default")
MonitorCheckMode ==
    /\ mpc = "m259"
    /\ IF video_manager /\ current_mode # "default"
       THEN /\ Enter("monitor", "default")
            /\ mpc' = "m261"
       ELSE /\ call' = call
            /\ mpc' = "m263"
    /\ UNCHANGED <<runVars, vmVars, sessVars, capVars, orchVars, time_since_speech,
                   slept>>

\* Mutant: the monitor restarts the silence period after its switch.
MonitorCallStamps ==
    /\ mpc = "m261"
    /\ call["monitor"].pc \in {"ret", "exc"}
    /\ call' = [call EXCEPT !["monitor"] = NoCall]
    /\ mpc' = "m263"
    /\ since_speech' = 0
    /\ UNCHANGED <<runVars, vmVars, is_currently_speaking, speaking_lock, capVars,
                   orchVars, time_since_speech, slept>>

\* play_segment returns to line 261, or raises into the handler of lines 265-267.
MonitorCallReturns ==
    /\ mpc = "m261"
    /\ call["monitor"].pc \in {"ret", "exc"}
    /\ call' = [call EXCEPT !["monitor"] = NoCall]
    /\ mpc' = "m263"
    /\ UNCHANGED <<runVars, vmVars, sessVars, capVars, orchVars, time_since_speech,
                   slept>>

\* line 263 (or 267): time.sleep(5), then the next poll.
MonitorSleep ==
    /\ mpc = "m263"
    /\ mpc' = "m255"
    /\ time_since_speech' = 0
    /\ slept' = 0
    /\ UNCHANGED <<runVars, vmVars, call, sessVars, capVars, orchVars>>

\* SILENCE_TIMEOUT seconds have passed since last_speech_time was written.
SilenceElapses ==
    /\ since_speech < SILENCE_TIMEOUT
    /\ since_speech' = SILENCE_TIMEOUT
    /\ UNCHANGED <<runVars, vmVars, call, is_currently_speaking, speaking_lock,
                   capVars, orchVars, monVars>>

(***************************************************************************)
(* HologramChatbot.process_speech and speak_response_synchronized          *)
(***************************************************************************)
Log(e) == events' = Append(events, e)

\* line 231: while self.is_currently_speaking: time.sleep(0.1)
ProcessWait ==
    /\ opc = "p231"
    /\ opc' = IF is_currently_speaking THEN "p231" ELSE "p235"
    /\ UNCHANGED <<runVars, vmVars, call, sessVars, capVars, response,
                   in_fallback, exc, audio, events, monVars>>

\* line 235: self.last_speech_time = time.time()
ProcessStamp ==
    /\ opc = "p235"
    /\ since_speech' = 0
    /\ opc' = "p240"
    /\ UNCHANGED <<runVars, vmVars, call, is_currently_speaking, speaking_lock,
                   capVars, response, in_fallback, exc, audio, events, monVars>>

\* line 240: bot_response = get_bot_response(text) returns, and line 244
\* passes it to speak_response_synchronized.
AskReturns ==
    /\ opc = "p240"
    /\ \E r \in Replies : response' = r
    /\ opc' = "s98"
    /\ UNCHANGED <<runVars, vmVars, call, sessVars, capVars, in_fallback, exc,
                   audio, events, monVars>>

\* line 240: get_bot_response raises; the handler of line 246 takes over.
AskRaises ==
    /\ opc = "p240"
    /\ opc' = "p248"
    /\ Log("ask_fail")
    /\ UNCHANGED <<runVars, vmVars, call, sessVars, capVars, response,
                   in_fallback, exc, audio, monVars>>

\* line 248: self.speak_response_synchronized("Sorry, I had trouble processing that.")
SpeakFallback ==
    /\ opc = "p248"
    /\ response' = Fallback
    /\ in_fallback' = TRUE
    /\ opc' = "s98"
    /\ UNCHANGED <<runVars, vmVars, call, sessVars, capVars, exc, audio, events,
                   monVars>>

\* Mutant: the empty text is not stopped and goes on to the speak sequence.
SpeakCleanNoCheck ==
    /\ opc = "s98"
    /\ opc' = "s105"
    /\ UNCHANGED <<runVars, vmVars, call, sessVars, capVars, response,
                   in_fallback, exc, audio, events, monVars>>

\* lines 98-101: clean_text = self.clean_response_text(text); if not clean_text: return
SpeakClean ==
    /\ opc = "s98"
    /\ opc' = IF clean_response_text(response) = <<>> THEN "done" ELSE "s105"
    /\ UNCHANGED <<runVars, vmVars, call, sessVars, capVars, response,
                   in_fallback, exc, audio, events, monVars>>

\* line 105: with self.speaking_lock
SpeakAcquire ==
    /\ opc = "s105"
    /\ speaking_lock = "free"
    /\ speaking_lock' = "main"
    /\ opc' = "s106"
    /\ Log("lock")
    /\ UNCHANGED <<runVars, vmVars, call, is_currently_speaking, since_speech, capVars,
                   response, in_fallback, exc, audio, monVars>>

\* line 106: self.is_currently_speaking = True
SpeakSetFlag ==
    /\ opc = "s106"
    /\ is_currently_speaking' = TRUE
    /\ opc' = "s110"
    /\ UNCHANGED <<runVars, vmVars, call, speaking_lock, since_speech, capVars,
                   response, in_fallback, exc, audio, events, monVars>>

\* lines 110-112: if self.video_manager: self.video_manager.start_speaking()
SpeakStartVideo ==
    /\ opc = "s110"
    /\ IF video_manager
       THEN /\ Enter("main", "talking")
            /\ Log("talking")
            /\ opc' = "s112"
       ELSE /\ call' = call
            /\ events' = events
            /\ opc' = "s115"
    /\ UNCHANGED <<runVars, vmVars, sessVars, capVars, response, in_fallback,
                   exc, audio, monVars>>

\* start_speaking returns, or raises into the handler of line 141.
StartVideoReturns ==
    /\ opc = "s112"
    /\ call["main"].pc \in {"ret", "exc"}
    /\ opc' = IF call["main"].pc = "ret" THEN "s115" ELSE "s141"
    /\ events' = IF call["main"].pc = "ret" THEN events ELSE Append(events, "video_fail")
    /\ call' = [call EXCEPT !["main"] = NoCall]
    /\ UNCHANGED <<runVars, vmVars, sessVars, capVars, response, in_fallback,
                   exc, audio, monVars>>

\* lines 115-124: the speech is synthesized into the temporary file.
Synthesize ==
    /\ opc = "s115"
    /\ opc' = "s128"
    /\ Log("synth")
    /\ UNCHANGED <<runVars, vmVars, call, sessVars, capVars, response,
                   in_fallback, exc, audio, monVars>>

\* lines 118-124 raise (gTTS cannot synthesize or save).
SynthesizeRaises ==
    /\ opc = "s115"
    /\ opc' = "s141"
    /\ Log("synth_fail")
    /\ UNCHANGED <<runVars, vmVars, call, sessVars, capVars, response,
                   in_fallback, exc, audio, monVars>>

\* line 128: playsound(temp_filename) starts playing.
PlayStarts ==
    /\ opc = "s128"
    /\ audio' = TRUE
    /\ opc' = "playing"
    /\ UNCHANGED <<runVars, vmVars, call, sessVars, capVars, response,
                   in_fallback, exc, events, monVars>>

\* line 128: playsound returns, the audio was played to its end.
PlayEnds ==
    /\ opc = "playing"
    /\ audio' = FALSE
    /\ opc' = "s132"
    /\ Log("audio")
    /\ UNCHANGED <<runVars, vmVars, call, sessVars, capVars, response,
                   in_fallback, exc, monVars>>

\* line 128: playsound raises.
PlayRaises ==
    /\ opc = "playing"
    /\ audio' = FALSE
    /\ opc' = "s141"
    /\ Log("audio_fail")
    /\ UNCHANGED <<runVars, vmVars, call, sessVars, capVars, response,
                   in_fallback, exc, monVars>>

\* lines 132-133: if self.video_manager: self.video_manager.stop_speaking()
SpeakStopVideo ==
    /\ opc = "s132"
    /\ IF video_manager
       THEN /\ Enter("main", "default")
            /\ Log("default")
            /\ opc' = "s133"
       ELSE /\ call' = call
            /\ events' = events
            /\ opc' = "s147"
    /\ UNCHANGED <<runVars, vmVars, sessVars, capVars, response, in_fallback,
                   exc, audio, monVars>>

\* stop_speaking returns, or raises into the handler of line 141.
StopVideoReturns ==
    /\ opc = "s133"
    /\ call["main"].pc \in {"ret", "exc"}
    /\ opc' = IF call["main"].pc = "ret" THEN "s147" ELSE "s141"
    /\ events' = IF call["main"].pc = "ret" THEN events ELSE Append(events, "video_fail")
    /\ call' = [call EXCEPT !["main"] = NoCall]
    /\ UNCHANGED <<runVars, vmVars, sessVars, capVars, response, in_fallback,
                   exc, audio, monVars>>

\* Mutant: the handler only reports the error and leaves the video as it is.
HandlerSkipsVideo ==
    /\ opc = "s141"
    /\ opc' = "s147"
    /\ UNCHANGED <<runVars, vmVars, call, sessVars, capVars, response,
                   in_fallback, exc, audio, events, monVars>>

\* lines 141-145, except Exception: if self.video_manager: self.video_manager.stop_speaking()
HandlerStopVideo ==
    /\ opc = "s141"
    /\ IF video_manager
       THEN /\ Enter("main", "default")
            /\ Log("default")
            /\ opc' = "s145"
       ELSE /\ call' = call
            /\ events' = events
            /\ opc' = "s147"
    /\ UNCHANGED <<runVars, vmVars, sessVars, capVars, response, in_fallback,
                   exc, audio, monVars>>

\* The handler's stop_speaking returns, or raises: the exception leaves
\* speak_response_synchronized through the finally block.
HandlerReturns ==
    /\ opc = "s145"
    /\ call["main"].pc \in {"ret", "exc"}
    /\ exc' = (call["main"].pc = "exc")
    /\ opc' = "s147"
    /\ events' = IF call["main"].pc = "ret" THEN events ELSE Append(events, "video_fail")
    /\ call' = [call EXCEPT !["main"] = NoCall]
    /\ UNCHANGED <<runVars, vmVars, sessVars, capVars, response, in_fallback,
                   audio, monVars>>

\* Mutant: the flag is not cleared on the way out.
FinallyKeepFlag ==
    /\ opc = "s147"
    /\ opc' = "s149"
    /\ UNCHANGED <<runVars, vmVars, call, sessVars, capVars, response,
                   in_fallback, exc, audio, events, monVars>>

\* line 147, finally: self.is_currently_speaking = False
FinallyClearFlag ==
    /\ opc = "s147"
    /\ is_currently_speaking' = FALSE
    /\ opc' = "s149"
    /\ UNCHANGED <<runVars, vmVars, call, speaking_lock, since_speech, capVars,
                   response, in_fallback, exc, audio, events, monVars>>

\* Mutant: the lock is given up with the write of the time stamp.
FinallyStampUnlocked ==
    /\ opc = "s149"
    /\ since_speech' = 0
    /\ speaking_lock' = "free"
    /\ opc' = "s150"
    /\ UNCHANGED <<runVars, vmVars, call, is_currently_speaking, capVars, response,
                   in_fallback, exc, audio, events, monVars>>

\* line 149, finally: self.last_speech_time = time.time()
FinallyStamp ==
    /\ opc = "s149"
    /\ since_speech' = 0
    /\ opc' = "s150"
    /\ UNCHANGED <<runVars, vmVars, call, is_currently_speaking, speaking_lock,
                   capVars, response, in_fallback, exc, audio, events, monVars>>

\* The with block of line 105 is left: the lock is released.  Without a
\* pending exception speak_response_synchronized and process_speech return;
\* an exception out of the call of line 244 reaches the handler of line 246,
\* one out of the call of line 248 leaves process_speech.
SpeakRelease ==
    /\ opc = "s150"
    /\ speaking_lock' = "free"
    /\ Log("unlock")
    /\ opc' = IF ~exc THEN "done" ELSE IF in_fallback THEN "raised" ELSE "p248"
    /\ exc' = FALSE
    /\ UNCHANGED <<runVars, vmVars, call, is_currently_speaking, since_speech, capVars,
                   response, in_fallback, audio, monVars>>

(***************************************************************************)
(* HologramChatbot.continuous_listening_loop                               *)
(***************************************************************************)
\* line 278, while self.is_listening, and lines 281-283:
\* if self.is_currently_speaking: time.sleep(0.5); continue
\* otherwise line 286, listen_for_speech, opens the microphone.
CaptureCheck ==
    /\ pc = "c281"
    /\ is_listening
    /\ pc' = IF is_currently_speaking THEN "c281" ELSE "listen"
    /\ UNCHANGED <<runVars, vmVars, call, sessVars, text, consecutive_empty, orchVars,
                   monVars>>

\* Mutant: recalibrates only once the counter has passed the maximum.
AfterResultLate(n) ==
    /\ consecutive_empty' = IF n > max_consecutive_empty THEN 0 ELSE n
    /\ pc' = IF n > max_consecutive_empty THEN "c311" ELSE "tail"

\* lines 308-310, with n the counter's value after lines 292, 303 or 305:
\* if consecutive_empty >= max_consecutive_empty: consecutive_empty = 0
AfterResult(n) ==
    /\ consecutive_empty' = IF n >= max_consecutive_empty THEN 0 ELSE n
    /\ pc' = IF n >= max_consecutive_empty THEN "c311" ELSE "tail"

\* listen_for_speech returns None (timeout, error); line 305 counts it.
ListenNothing ==
    /\ pc = "listen"
    /\ AfterResult(consecutive_empty + 1)
    /\ UNCHANGED <<runVars, vmVars, call, sessVars, text, orchVars, monVars>>

\* listen_for_speech returns the captured audio.
ListenAudio ==
    /\ pc = "listen"
    /\ pc' = "c289"
    /\ UNCHANGED <<runVars, vmVars, call, sessVars, text, consecutive_empty, orchVars,
                   monVars>>

\* Mutant: the text is handed to a worker of the executor and the loop goes on.
DispatchAsync ==
    /\ pc' = "tail"
    /\ opc' = "p231"

\* line 299: self.process_speech(text); the loop waits for it to return.
Dispatch ==
    /\ pc' = "c299"
    /\ opc' = "p231"

\* Mutant: every text that is not empty is handed to process_speech.
RecognizeAnyFrom(U) ==
    /\ pc = "c289"
    /\ \E t \in U :
          /\ text' = t
          /\ IF t = <<>>
             THEN AfterResult(consecutive_empty + 1) /\ opc' = opc
             ELSE Dispatch /\ consecutive_empty' = 0
    /\ UNCHANGED <<runVars, vmVars, call, sessVars, response, in_fallback, exc,
                   audio, events, monVars>>

\* lines 289-305 with recognize_speech returning one of the texts of U: an
\* actionable text is handed to process_speech, any other is dropped.
\* An empty text is counted (line 303), any other resets the counter (line 292).
RecognizeFrom(U) ==
    /\ pc = "c289"
    /\ \E t \in U :
          /\ text' = t
          /\ IF t = <<>>
             THEN AfterResult(consecutive_empty + 1) /\ opc' = opc
             ELSE IF is_question_or_command(t)
                  THEN Dispatch /\ consecutive_empty' = 0
                  ELSE AfterResult(0) /\ opc' = opc
    /\ UNCHANGED <<runVars, vmVars, call, sessVars, response, in_fallback, exc,
                   audio, events, monVars>>

\* lines 289-305: text = self.recognize_speech(audio) and what follows.
Recognize == RecognizeFrom(Utterances)

\* process_speech returns to line 299, or raises into the handler of
\* lines 324-326.  The turn's locals are dead from here on.
ProcessReturns ==
    /\ pc = "c299"
    /\ opc \in {"done", "raised"}
    /\ pc' = IF opc = "done" THEN "tail" ELSE "c326"
    /\ opc' = "idle"
    /\ response' = <<>>
    /\ in_fallback' = FALSE
    /\ events' = <<>>
    /\ UNCHANGED <<runVars, vmVars, call, sessVars, text, consecutive_empty, exc, audio,
                   monVars>>

\* lines 308-319 (time.sleep(0.1)) or line 326 (time.sleep(1)), then the next
\* iteration.
NextIteration ==
    /\ pc \in {"tail", "c326"}
    /\ pc' = "c281"
    /\ text' = <<>>
    /\ UNCHANGED <<runVars, vmVars, call, sessVars, consecutive_empty, orchVars, monVars>>

\* lines 311-316: time.sleep(1), then adjust_for_ambient_noise; what it raises
\* is dropped.
Recalibrate ==
    /\ pc = "c311"
    /\ pc' = "tail"
    /\ UNCHANGED <<runVars, vmVars, call, sessVars, text, consecutive_empty, orchVars,
                   monVars>>

(***************************************************************************)
(* The system                                                              *)
(***************************************************************************)
PlaySegment(c) ==
    \/ StopVideoCheck(c)
    \/ StopVideoClearPlaying(c)
    \/ StopVideoSetEvent(c)
    \/ StopVideoIsAlive(c)
    \/ StopVideoJoin(c)
    \/ JoinReturn(c)
    \/ JoinTimeout(c)
    \/ SetMode(c)
    \/ ClearEvent(c)
    \/ SetPlaying(c)
    \/ NewThread(c)
    \/ StartThread(c)

Monitor ==
    \/ MonitorReadTime
    \/ MonitorCheckSpeaking
    \/ MonitorCheckMode
    \/ MonitorCallReturns
    \/ MonitorSleep
    \/ PlaySegment("monitor")

Orchestrator ==
    \/ ProcessWait
    \/ ProcessStamp
    \/ AskReturns
    \/ AskRaises
    \/ SpeakFallback
    \/ SpeakClean
    \/ SpeakAcquire
    \/ SpeakSetFlag
    \/ SpeakStartVideo
    \/ StartVideoReturns
    \/ Synthesize
    \/ SynthesizeRaises
    \/ PlayStarts
    \/ PlayEnds
    \/ PlayRaises
    \/ SpeakStopVideo
    \/ StopVideoReturns
    \/ HandlerStopVideo
    \/ HandlerReturns
    \/ FinallyClearFlag
    \/ FinallyStamp
    \/ SpeakRelease

Capture ==
    \/ CaptureCheck
    \/ ListenNothing
    \/ ListenAudio
    \/ Recognize
    \/ ProcessReturns
    \/ NextIteration
    \/ Recalibrate

MainThread == Capture \/ Orchestrator \/ PlaySegment("main")

Workers == (\E i \in ThreadIds : WorkerLoop(i)) \/ (\E s \in Segments : OrphanLoop(s))

Next == MainThread \/ Monitor \/ Workers \/ SilenceElapses

Spec == Init /\ [][Next]_vars

(***************************************************************************)
(* Properties                                                              *)
(***************************************************************************)
TypeOK ==
    /\ video_manager \in BOOLEAN
    /\ use_video \in BOOLEAN
    /\ is_listening \in BOOLEAN
    /\ target \in [ThreadIds -> {"none", "_video_playback_loop", "_animated_loop"}]
    /\ \A i \in ThreadIds : target[i] = "none" <=> threads[i].st = "none"
    /\ consecutive_empty \in 0..max_consecutive_empty
    /\ current_mode \in Segments
    /\ is_playing \in BOOLEAN
    /\ stop_event \in BOOLEAN
    /\ playback_thread \in 0..NThreads
    /\ threads \in [ThreadIds -> [st : {"none", "new", "run", "dead"}, seg : Segments]]
    /\ orphans \subseteq Segments
    /\ call \in [Callers -> [pc : {"idle", "v446", "v447", "v448", "v450", "v451", "join",
                                   "v296", "v297", "v298", "v301", "v305", "ret", "exc",
                                   "v458", "v464"},
                             seg : Segments, name : SegmentNames,
                             from : {"play_segment", "cleanup"},
                             jt : 0..NThreads, w : 0..JOIN_TIMEOUT]]
    /\ is_currently_speaking \in BOOLEAN
    /\ speaking_lock \in {"free", "main"}
    /\ since_speech \in 0..MaxAge
    /\ pc \in {"c281", "listen", "c289", "c299", "tail", "c311", "c326",
              "c351", "c354", "c357", "c359", "c363", "exit", "v471", "v46", "v49"}
    /\ text \in Utterances \cup Phrases
    /\ opc \in {"idle", "p231", "p235", "p240", "p248", "s98", "s105", "s106", "s110",
                "s112", "s115", "s128", "playing", "s132", "s133", "s141", "s145",
                "s147", "s149", "s150", "done", "raised", "k147", "k149", "k150"}
    /\ \/ response \in Replies \cup {Fallback}
       \/ Len(response) <= MaxLen /\ Range(response) \subseteq Alphabet
    /\ in_fallback \in BOOLEAN
    /\ exc \in BOOLEAN
    /\ audio \in BOOLEAN
    /\ mpc \in {"m255", "m258", "m259", "m261", "m263"}
    /\ time_since_speech \in 0..MaxAge
    /\ slept \in 0..PollInterval
    /\ video \in ValidVideos \cup {NoVideo}
    /\ fps \in 25..30
    /\ total_frames \in 0..MaxFrames
    /\ segments \in [Segments -> [start : Int, end : Int]]

\* Every thread object in the table is referenced.
TableReferenced ==
    \A i \in ThreadIds :
        threads[i].st # "none" => i = playback_thread \/ i \in JoinTargets(call)

\* C1: in every reachable state at most one playback worker is alive.
AtMostOneWorker == AliveWorkers <= 1

\* What speak_response_synchronized did to the video and the audio, in order.
SpeakEvents == SelectSeq(events, LAMBDA e : e \in {"talking", "audio", "default"})

\* The turn is over: process_speech is about to return or to raise.
TurnOver == opc \in {"done", "raised"}

Happened(e) == e \in Range(events)

\* The backend replied, and what was synthesized was played to its end.
SuccessfulTurn ==
    /\ TurnOver
    /\ Happened("audio")
    /\ ~Happened("ask_fail") /\ ~Happened("synth_fail") /\ ~Happened("audio_fail")

\* C2: with a video manager, a turn whose reply is synthesized and played
\* without failure does exactly: switch to talking, audio played, switch to
\* default.
SuccessfulTurnOrder ==
    (video_manager /\ SuccessfulTurn) => SpeakEvents = <<"talking", "audio", "default">>

\* C3: is_currently_speaking is true from the switch to talking until the
\* switch back to default has been issued, and false while no speak sequence
\* is in progress.
SpeakingFlagTracksSequence ==
    /\ opc \in {"s112", "s115", "s128", "playing", "s132", "s141"} => is_currently_speaking
    /\ opc \in {"idle", "p231", "p235", "p240", "p248", "s98", "done", "raised"}
          => ~is_currently_speaking

SpeakingWhilePlaying == opc = "playing" /\ audio /\ is_currently_speaking

\* C4: no capture is in progress while is_currently_speaking is true or audio
\* is played, and a capture runs only while the orchestrator is idle.
CaptureExcludesSpeaking ==
    pc = "listen" => ~is_currently_speaking /\ ~audio /\ opc = "idle"

LoopBlockedWhilePlaying == audio /\ is_currently_speaking /\ pc = "c299"

\* C5: with a video manager, the talking segment is the active one in every
\* state in which the audio is being played.
TalkingWhilePlaying == (video_manager /\ audio) => current_mode = "talking"

\* C7: when the backend call fails, the fallback phrase goes through the
\* whole speak sequence (lock, switch to talking, synthesis, audio, switch to
\* default, unlock) and process_speech returns.
FallbackSequence ==
    (/\ TurnOver
     /\ Happened("ask_fail")
     /\ ~Happened("synth_fail") /\ ~Happened("audio_fail"))
    => /\ opc = "done"
       /\ response = Fallback
       /\ events = IF video_manager
                   THEN <<"ask_fail", "lock", "talking", "synth", "audio", "default", "unlock">>
                   ELSE <<"ask_fail", "lock", "synth", "audio", "unlock">>

\* The speak sequence in which synthesis or playback failed is a reply's.
ReplySpeechFailed ==
    \E i \in DOMAIN events :
        /\ events[i] \in {"synth_fail", "audio_fail"}
        /\ \A j \in 1..i : events[j] # "ask_fail"
        /\ \A j \in 1..i : events[j] # "video_fail"

EmptyTextNoEffect ==
    [][(opc = "s98" /\ clean_response_text(response) = <<>> /\ opc' # opc)
         => /\ opc' = "done"
            /\ UNCHANGED <<speaking_lock, is_currently_speaking, call, vmVars, audio,
                           events, since_speech>>]_vars

EmptyTextReturned ==
    /\ opc = "done"
    /\ response # <<>>
    /\ clean_response_text(response) = <<>>
    /\ events = <<>>
    /\ speaking_lock = "free"
    /\ ~is_currently_speaking

\* The orchestrator is idle, the lock free, the default segment the active
\* one, and the loop is free to capture (it is not inside process_speech).
ConvergedIdle ==
    /\ pc # "c299"
    /\ opc = "idle"
    /\ ~is_currently_speaking
    /\ speaking_lock = "free"
    /\ ~audio
    /\ video_manager => current_mode = "default"

\* Every thread is scheduled again and again: the external calls of the main
\* thread return or raise, a join ends (at the latest after its timeout), the
\* monitor wakes up from its sleep, a worker comes back to its loop
\* condition, and time passes.
FairSpec ==
    /\ Spec
    /\ WF_vars(MainThread)
    /\ WF_vars(Monitor)
    /\ WF_vars(Workers)
    /\ WF_vars(SilenceElapses)

\* C6: once process_speech is entered, a state is reached in which
\* is_currently_speaking is false, the lock is free, the mode is default and
\* the loop is free to capture again.
TurnConverges == (opc = "p231") ~> ConvergedIdle

(***************************************************************************)
(* The silence monitor against the clock.  Time passes in time.sleep(5)    *)
(* and in join(timeout=2.0); every other statement of the monitor takes no *)
(* time.  No speech is heard: the capture loop listens and hears nothing.  *)
(***************************************************************************)
\* One second passes while monitor_silence is blocked in time.sleep(5) or in
\* the join of stop_video; neither lasts longer than its argument.
Tick ==
    /\ \/ mpc = "m263" /\ slept < PollInterval
       \/ /\ call["monitor"].pc = "join"
          /\ call["monitor"].w < JOIN_TIMEOUT
          /\ is_alive(call["monitor"].jt)
    /\ since_speech' = IF since_speech < MaxAge THEN since_speech + 1 ELSE MaxAge
    /\ slept' = IF mpc = "m263" THEN slept + 1 ELSE slept
    /\ call' = [call EXCEPT !["monitor"].w = IF call["monitor"].pc = "join" THEN @ + 1 ELSE @]
    /\ UNCHANGED <<runVars, vmVars, is_currently_speaking, speaking_lock, capVars,
                   orchVars, mpc, time_since_speech>>

\* line 263: time.sleep(5) returns after 5 seconds.
TimedMonitorSleep ==
    /\ slept = PollInterval
    /\ MonitorSleep

\* stop_video, line 451: join(timeout=2.0) gives up after 2 seconds.
TimedJoinTimeout ==
    /\ call["monitor"].w = JOIN_TIMEOUT
    /\ JoinTimeout("monitor")

\* play_segment as called by monitor_silence, the join bounded by its timeout.
TimedPlaySegment ==
    \/ StopVideoCheck("monitor")
    \/ StopVideoClearPlaying("monitor")
    \/ StopVideoSetEvent("monitor")
    \/ StopVideoIsAlive("monitor")
    \/ StopVideoJoin("monitor")
    \/ JoinReturn("monitor")
    \/ TimedJoinTimeout
    \/ SetMode("monitor")
    \/ ClearEvent("monitor")
    \/ SetPlaying("monitor")
    \/ NewThread("monitor")
    \/ StartThread("monitor")

TimedMonitor ==
    \/ MonitorReadTime
    \/ MonitorCheckSpeaking
    \/ MonitorCheckMode
    \/ MonitorCallReturns
    \/ TimedMonitorSleep
    \/ TimedPlaySegment

\* continuous_listening_loop while listen_for_speech returns None.
QuietCapture == CaptureCheck \/ ListenNothing \/ NextIteration \/ Recalibrate

\* last_speech_time has just been written (line 149, or line 235 of a turn
\* whose reply was empty) while the mode is talking and nothing is spoken: the
\* state a turn leaves behind when its last stop_speaking raised.  The monitor
\* is anywhere in its sleep.
TimedInit ==
    /\ video_manager = TRUE
    /\ use_video = TRUE
    /\ FileTested
    /\ is_listening = TRUE
    /\ target = [i \in ThreadIds |-> IF i = 1 THEN LoopFor(TRUE) ELSE "none"]
    /\ consecutive_empty \in 0..(max_consecutive_empty - 1)
    /\ current_mode = "talking"
    /\ is_playing = TRUE
    /\ stop_event = FALSE
    /\ playback_thread = 1
    /\ threads = [i \in ThreadIds |->
                    IF i = 1 THEN [st |-> "run", seg |-> "default"] ELSE NoThread]
    /\ orphans = {}
    /\ call = [c \in Callers |-> NoCall]
    /\ is_currently_speaking = FALSE
    /\ speaking_lock = "free"
    /\ since_speech = 0
    /\ pc = "listen"
    /\ text = <<>>
    /\ opc = "idle"
    /\ response = <<>>
    /\ in_fallback = FALSE
    /\ exc = FALSE
    /\ audio = FALSE
    /\ events = <<>>
    /\ mpc = "m263"
    /\ time_since_speech = 0
    /\ slept \in 0..(PollInterval - 1)

TimedNext == Tick \/ TimedMonitor \/ Workers \/ QuietCapture

TimedSpec == TimedInit /\ [][TimedNext]_vars

\* The state TimedInit starts from, but for the monitor's place in its sleep;
\* Spec reaches it.
TalkingLeftBehind ==
    /\ video_manager
    /\ current_mode = "talking"
    /\ is_playing /\ ~stop_event
    /\ playback_thread = 1
    /\ threads = [i \in ThreadIds |->
                    IF i = 1 THEN [st |-> "run", seg |-> "default"] ELSE NoThread]
    /\ orphans = {}
    /\ call = [c \in Callers |-> NoCall]
    /\ ~is_currently_speaking
    /\ speaking_lock = "free"
    /\ since_speech = 0
    /\ pc = "listen" /\ opc = "idle"
    /\ mpc = "m263"
    /\ time_since_speech = 0

\* C10: while nothing is spoken and the mode is not default, the mode is
\* default again at most one polling interval after last_speech_time has
\* become SILENCE_TIMEOUT seconds old.
SilenceBoundedResponse ==
    (video_manager /\ ~is_currently_speaking /\ current_mode # "default")
        => since_speech <= SILENCE_TIMEOUT + PollInterval

\* The monitor's switch comes at most one polling interval and one join
\* timeout after the silence timeout.
SilenceResponseAfterJoin ==
    (video_manager /\ ~is_currently_speaking /\ current_mode # "default")
        => since_speech <= SILENCE_TIMEOUT + PollInterval + JOIN_TIMEOUT

(***************************************************************************)
(* The silence monitor's switch                                            *)
(***************************************************************************)
\* C11: monitor_silence enters play_segment only from the check of line 259,
\* with a video manager, for the default segment and with current_mode other
\* than default; a poll that finds current_mode = "default" goes to its sleep
\* and leaves the video manager and the running worker as they are.
MonitorNoRedundantSwitch ==
    [][/\ (call["monitor"].pc = "idle" /\ call'["monitor"].pc # "idle")
            => /\ mpc = "m259"
               /\ video_manager
               /\ current_mode # "default"
               /\ call'["monitor"].seg = "default"
       /\ (mpc = "m259" /\ current_mode = "default" /\ mpc' # mpc)
            => /\ mpc' = "m263"
               /\ UNCHANGED <<vmVars, call>>]_vars

\* The silence timeout has elapsed, the poll found the default segment active
\* and went to sleep; the default worker is running on.
PolledInDefault ==
    /\ mpc = "m263"
    /\ time_since_speech >= SILENCE_TIMEOUT
    /\ ~is_currently_speaking
    /\ opc = "idle"
    /\ video_manager
    /\ current_mode = "default"
    /\ call["monitor"].pc = "idle"
    /\ is_playing
    /\ playback_thread # 0
    /\ threads[playback_thread] = [st |-> "run", seg |-> "default"]

(***************************************************************************)
(* The capture loop's count of empty results                               *)
(***************************************************************************)
\* C20: a capture that yields no audio or an empty recognition adds one to
\* consecutive_empty, and the tenth in a row resets it to 0 and recalibrates;
\* a non-empty recognized text, actionable or not, resets it to 0 without
\* recalibrating; no other step changes it or recalibrates; and the counter is
\* in 0..9 at the start of every iteration.
RecalibrationEveryTenthEmpty ==
    [][/\ pc = "c281" => consecutive_empty \in 0..(max_consecutive_empty - 1)
       /\ pc' = "c281" => consecutive_empty' \in 0..(max_consecutive_empty - 1)
       /\ IF \/ pc = "listen" /\ pc' \notin {"listen", "c289"}
             \/ pc = "c289" /\ pc' # "c289" /\ text' = <<>>
          THEN IF consecutive_empty = max_consecutive_empty - 1
               THEN consecutive_empty' = 0 /\ pc' = "c311"
               ELSE consecutive_empty' = consecutive_empty + 1 /\ pc' = "tail"
          ELSE IF pc = "c289" /\ pc' # "c289"
               THEN text' # <<>> /\ consecutive_empty' = 0 /\ pc' # "c311"
               ELSE /\ consecutive_empty' = consecutive_empty
                    /\ pc' = "c311" => pc = "c311"]_vars

\* The tenth empty capture in a row has just reset the counter and the loop is
\* recalibrating.
Recalibrating ==
    /\ pc = "c311"
    /\ consecutive_empty = 0
    /\ text = <<>>
    /\ opc = "idle"

(***************************************************************************)
(* The video manager on its own, under a client of its methods             *)
(* (the object play_hologram_video returns, video_manager.py lines 473-475)*)
(***************************************************************************)
\* The state HologramVideoManager.__init__ leaves: the video file was found or
\* not (use_video, line 46) and start_default_video has started the default
\* worker (lines 52-57), which runs the loop play_segment chose unless its
\* capture failed to open; no chatbot thread is running.
ManagerInit ==
    /\ video_manager = TRUE
    /\ use_video \in BOOLEAN
    /\ FileTested
    /\ is_listening = TRUE
    /\ target \in {[i \in ThreadIds |-> IF i = 1 THEN loop ELSE "none"] :
                     loop \in {LoopFor(use_video), LoopFor(FALSE)}}
    /\ current_mode = "default"
    /\ is_playing = TRUE
    /\ stop_event = FALSE
    /\ playback_thread = 1
    /\ threads = [i \in ThreadIds |->
                    IF i = 1 THEN [st |-> "run", seg |-> "default"] ELSE NoThread]
    /\ orphans = {}
    /\ call = [c \in Callers |-> NoCall]
    /\ is_currently_speaking = FALSE
    /\ speaking_lock = "free"
    /\ since_speech = 0
    /\ pc = "c281"
    /\ text = <<>>
    /\ consecutive_empty = 0
    /\ opc = "idle"
    /\ response = <<>>
    /\ in_fallback = FALSE
    /\ exc = FALSE
    /\ audio = FALSE
    /\ events = <<>>
    /\ mpc = "m255"
    /\ time_since_speech = 0
    /\ slept = 0

\* The client calls play_segment with some name.
ClientPlay ==
    /\ call["main"].pc = "idle"
    /\ \E n \in SegmentNames : Enter("main", n)
    /\ UNCHANGED <<runVars, vmVars, sessVars, capVars, orchVars, monVars>>

\* play_segment returns to the client.
ClientReturn ==
    /\ call["main"].pc = "ret"
    /\ call' = [call EXCEPT !["main"] = NoCall]
    /\ UNCHANGED <<runVars, vmVars, sessVars, capVars, orchVars, monVars>>

\* line 305 with what the new worker does first, lines 311-316 of
\* _video_playback_loop: cv2.VideoCapture(self.video_path) is not opened, and
\* the worker calls self._animated_loop(segment_name) instead.
StartThreadOpenFails(c) ==
    /\ call[c].pc = "v305"
    /\ threads[playback_thread].st = "new"
    /\ target[playback_thread] = LoopFor(TRUE)
    /\ threads' = [threads EXCEPT ![playback_thread].st = "run"]
    /\ target' = [target EXCEPT ![playback_thread] = LoopFor(FALSE)]
    /\ Goto(c, "ret")
    /\ UNCHANGED <<fileVars, video_manager, use_video, is_listening, current_mode, is_playing,
                   stop_event, playback_thread, orphans, sessVars, capVars, orchVars,
                   monVars>>

ManagerNext ==
    \/ ClientPlay
    \/ PlaySegment("main")
    \/ StartThreadOpenFails("main")
    \/ ClientReturn
    \/ Workers

ManagerSpec == ManagerInit /\ [][ManagerNext]_vars

\* C12: a call of play_segment with a name that is not a segment does, step
\* by step, what a call with "default" does: it starts as the same activation,
\* asks the previous worker to stop (is_playing cleared, stop_event set), sets
\* current_mode to "default" and creates and starts a worker for the default
\* segment.
UnknownNameAsDefault ==
    [][\A c \in Callers :
          (/\ call'[c].from = "play_segment"
           /\ call'[c].name \in (SegmentNames \ Segments) \cup {"default"}
           /\ call'[c] # call[c]
           /\ call'[c].pc # "idle")
          => /\ call[c].pc = "idle"
                  => /\ call'[c] = [pc |-> "v446", seg |-> "default",
                                    name |-> call'[c].name, from |-> "play_segment",
                                    jt |-> 0, w |-> 0]
                     /\ UNCHANGED vmVars
             /\ call[c].pc = "v447" => ~is_playing'
             /\ call[c].pc = "v448" => stop_event'
             /\ call[c].pc = "v296" => current_mode' = "default"
             /\ call[c].pc = "v301"
                  => threads'[playback_thread'] = [st |-> "new", seg |-> "default"]
             /\ call[c].pc = "v305" /\ call'[c].pc = "ret"
                  => threads'[playback_thread'] = [st |-> "run", seg |-> "default"]]_vars

\* play_segment("listening") has returned while the talking segment was
\* active: the mode is default and the default worker is the one running.
UnknownNamePlayed ==
    /\ call["main"].pc = "ret"
    /\ call["main"].name = "listening"
    /\ current_mode = "default"
    /\ is_playing /\ ~stop_event
    /\ threads[playback_thread] = [st |-> "run", seg |-> "default"]
    /\ AliveWorkers = 1

(***************************************************************************)
(* Shutdown: HologramChatbot.run's finally, cleanup, and __del__           *)
(***************************************************************************)
\* Calls of HologramChatbot.cleanup and HologramVideoManager.__del__ in one run.
MaxCleanups == 3

\* HologramVideoManager.cleanup is entered: line 456 calls stop_video.
EnterCleanup(c) ==
    call' = [call EXCEPT ![c] = [pc |-> "v446", seg |-> "default", name |-> "default",
                                 from |-> "cleanup", jt |-> 0, w |-> 0]]

\* stop_video, lines 444-451.
StopVideo(c) ==
    \/ StopVideoCheck(c)
    \/ StopVideoClearPlaying(c)
    \/ StopVideoSetEvent(c)
    \/ StopVideoIsAlive(c)
    \/ StopVideoJoin(c)
    \/ JoinReturn(c)
    \/ JoinTimeout(c)

\* lines 458-462: self.server.shutdown(); what it raises is dropped.
ServerShutdown(c) ==
    /\ call[c].pc = "v458"
    /\ Goto(c, "v464")
    /\ UNCHANGED <<runVars, vmVars, sessVars, capVars, orchVars, monVars>>

\* lines 464-468: os.remove('hologram.html'); what it raises (the file is gone
\* after the first cleanup) is dropped.
RemoveHtml(c) ==
    /\ call[c].pc = "v464"
    /\ Goto(c, "ret")
    /\ UNCHANGED <<runVars, vmVars, sessVars, capVars, orchVars, monVars>>

\* KeyboardInterrupt in the capture loop: lines 321-323 break, and the finally
\* block of run (line 346) calls cleanup.
Interrupt ==
    /\ pc \in {"c281", "listen", "tail", "c311"}
    /\ opc = "idle"
    /\ pc' = "c351"
    /\ UNCHANGED <<runVars, vmVars, call, sessVars, text, consecutive_empty, orchVars,
                   monVars>>

\* line 351: self.is_listening = False
CleanupStopListening ==
    /\ pc = "c351"
    /\ is_listening' = FALSE
    /\ pc' = "c354"
    /\ UNCHANGED <<fileVars, video_manager, use_video, target, vmVars, call, sessVars, text,
                   consecutive_empty, orchVars, monVars>>

\* line 354: self.executor.shutdown(wait=False)
CleanupExecutor ==
    /\ pc = "c354"
    /\ pc' = "c357"
    /\ UNCHANGED <<runVars, vmVars, call, sessVars, text, consecutive_empty, orchVars,
                   monVars>>

\* lines 357-359: if self.video_manager: self.video_manager.cleanup()
CleanupVideo ==
    /\ pc = "c357"
    /\ IF video_manager
       THEN EnterCleanup("main") /\ pc' = "c359"
       ELSE call' = call /\ pc' = "c363"
    /\ UNCHANGED <<runVars, vmVars, sessVars, text, consecutive_empty, orchVars, monVars>>

\* lines 359-361: the manager's cleanup returns; what it raises is dropped.
CleanupVideoReturns ==
    /\ pc = "c359"
    /\ call["main"].pc \in {"ret", "exc"}
    /\ call' = [call EXCEPT !["main"] = NoCall]
    /\ pc' = "c363"
    /\ UNCHANGED <<runVars, vmVars, sessVars, text, consecutive_empty, orchVars, monVars>>

\* line 363: cleanup returns.
CleanupReturns ==
    /\ pc = "c363"
    /\ pc' = "exit"
    /\ Log("cleanup")
    /\ UNCHANGED <<runVars, vmVars, call, sessVars, text, consecutive_empty, opc, response,
                   in_fallback, exc, audio, monVars>>

\* cleanup is called once more.
CleanupAgain ==
    /\ pc = "exit"
    /\ Len(events) < MaxCleanups
    /\ pc' = "c351"
    /\ UNCHANGED <<runVars, vmVars, call, sessVars, text, consecutive_empty, orchVars,
                   monVars>>

\* lines 470-471: the manager is collected and __del__ calls cleanup.
Del ==
    /\ pc = "exit"
    /\ video_manager
    /\ Len(events) < MaxCleanups
    /\ EnterCleanup("main")
    /\ pc' = "v471"
    /\ UNCHANGED <<runVars, vmVars, sessVars, text, consecutive_empty, orchVars, monVars>>

\* __del__ returns; what its cleanup raises goes nowhere.
DelReturns ==
    /\ pc = "v471"
    /\ call["main"].pc \in {"ret", "exc"}
    /\ call' = [call EXCEPT !["main"] = NoCall]
    /\ pc' = "exit"
    /\ Log("__del__")
    /\ UNCHANGED <<runVars, vmVars, sessVars, text, consecutive_empty, opc, response,
                   in_fallback, exc, audio, monVars>>

Shutdown ==
    \/ Interrupt
    \/ CleanupStopListening
    \/ CleanupExecutor
    \/ CleanupVideo
    \/ CleanupVideoReturns
    \/ CleanupReturns
    \/ CleanupAgain
    \/ Del
    \/ DelReturns
    \/ StopVideo("main")
    \/ ServerShutdown("main")
    \/ RemoveHtml("main")

\* The monitor while nothing is spoken and the default segment is active.
QuietMonitor ==
    \/ MonitorReadTime
    \/ MonitorCheckSpeaking
    \/ MonitorCheckMode
    \/ MonitorSleep

\* A session in which nobody speaks, then shut down.
ShutdownNext ==
    \/ QuietCapture
    \/ Shutdown
    \/ QuietMonitor
    \/ \E i \in ThreadIds : WorkerLoop(i)
    \/ SilenceElapses

ShutdownSpec == Init /\ [][ShutdownNext]_vars

\* A first cleanup has returned.
CleanedUp == Len(events) >= 1

\* C13: once a first cleanup has returned, and during and after every further
\* one, is_listening is false and no cleanup has raised; with a video manager,
\* is_playing is false, the stop event is set and no worker is alive.
CleanupIdempotent ==
    CleanedUp
        => /\ ~is_listening
           /\ call["main"].pc # "exc"
           /\ video_manager => ~is_playing /\ stop_event /\ AliveWorkers = 0

(***************************************************************************)
(* The speaking lock and the fields it guards                              *)
(***************************************************************************)
\* An assignment to self.last_speech_time is executed (lines 235 and 149).
WritesTimestamp == opc \in {"p235", "s149"} /\ opc' # opc

\* An assignment to self.is_currently_speaking is executed (lines 106 and 147).
WritesFlag == opc \in {"s106", "s147"} /\ opc' # opc

\* C14: every step that assigns is_currently_speaking or last_speech_time is
\* taken by the main thread while it holds the speaking lock.
WritesUnderLock ==
    [][(WritesTimestamp \/ WritesFlag \/ is_currently_speaking' # is_currently_speaking)
          => speaking_lock = "main"]_vars

(***************************************************************************)
(* The backend call                                                        *)
(***************************************************************************)
\* C15: a turn begins exactly when the recognized text is not empty and
\* is_question_or_command accepts it; within a turn get_bot_response (line 240)
\* is reached once, after lines 231 and 235 and with the loop's text as it was
\* recognized; outside a turn it is never reached; and the loop stays in its
\* call of process_speech (line 299), opening no capture, until the turn is
\* over.
BackendOncePerActionable ==
    [][/\ (pc = "c289" /\ pc' # "c289")
            => (opc' = "p231" <=> text' # <<>> /\ is_question_or_command(text'))
       /\ (opc' = "p231" /\ opc # "p231")
            => opc = "idle" /\ pc = "c289" /\ pc' = "c299"
       /\ (opc' = "p235" /\ opc # "p235") => opc = "p231"
       /\ (opc' = "p240" /\ opc # "p240") => opc = "p235"
       /\ opc = "p231" => ~is_currently_speaking
       /\ opc # "idle"
            => /\ pc = "c299"
               /\ text # <<>> /\ is_question_or_command(text)
               /\ text' = text
       /\ pc' = "listen" => opc' = "idle"]_vars

\* get_bot_response is being called with the utterance "stop" while the loop
\* waits at line 299.
BackendAsked ==
    /\ opc = "p240"
    /\ pc = "c299"
    /\ text = <<"s","t","o","p">>
    /\ ~is_currently_speaking
    /\ speaking_lock = "free"

(***************************************************************************)
(* is_question_or_command over the phrases                                 *)
(***************************************************************************)
\* The capture loop has its audio and recognize_speech (line 289) is returning
\* its text, one of the phrases; nothing has been said before and there is no
\* video manager.
ClassifyInit ==
    /\ video_manager = FALSE
    /\ use_video = FALSE
    /\ FileTested
    /\ is_listening = TRUE
    /\ target = [i \in ThreadIds |-> "none"]
    /\ current_mode = "default"
    /\ is_playing = FALSE
    /\ stop_event = FALSE
    /\ playback_thread = 0
    /\ threads = [i \in ThreadIds |-> NoThread]
    /\ orphans = {}
    /\ call = [c \in Callers |-> NoCall]
    /\ is_currently_speaking = FALSE
    /\ speaking_lock = "free"
    /\ since_speech = 0
    /\ pc = "c289"
    /\ text \in Phrases
    /\ consecutive_empty = 0
    /\ opc = "idle"
    /\ response = <<>>
    /\ in_fallback = FALSE
    /\ exc = FALSE
    /\ audio = FALSE
    /\ events = <<>>
    /\ mpc = "m255"
    /\ time_since_speech = 0
    /\ slept = 0

\* Lines 289-305 deal with the text.
Classify == RecognizeFrom({text})

ClassifySpec == ClassifyInit /\ [][Classify]_vars

\* C16: a recognized phrase is handed to process_speech exactly when, with t
\* the phrase in lower case without the blanks around it and w its words, t
\* has at least 3 characters and is not a noise word, and the phrase has a
\* question mark or one of the words is a question or command word or there
\* are at least 3 words; so a phrase of two words with no such word and no
\* question mark is not.
ClassifiedByPolicy ==
    pc \in {"c299", "tail", "c311"}
        => LET t == Strip(Lower(text))
               w == Split(t)
               keyword == \E i \in 1..Len(w) : w[i] \in question_words \cup command_words
               accepted == /\ ~(Len(t) < 3 \/ t \in noise_words)
                           /\ "?" \in Range(text) \/ keyword \/ Len(w) >= 3
           IN  /\ (pc = "c299") = accepted
               /\ (Len(w) = 2 /\ ~keyword /\ "?" \notin Range(text)) => pc # "c299"

\* The phrase "tea stop", which has a command word but not in front, was
\* handed to process_speech.
KeywordInsideAccepted ==
    /\ pc = "c299"
    /\ opc = "p231"
    /\ text = <<"t","e","a"," ","s","t","o","p">>

(***************************************************************************)
(* clean_response_text over short texts                                    *)
(***************************************************************************)
\* get_bot_response has returned one of the texts for the utterance "stop"
\* and speak_response_synchronized is entered with it (line 244); there is no
\* video manager.
CleanInit ==
    /\ video_manager = FALSE
    /\ use_video = FALSE
    /\ FileTested
    /\ is_listening = TRUE
    /\ target = [i \in ThreadIds |-> "none"]
    /\ current_mode = "default"
    /\ is_playing = FALSE
    /\ stop_event = FALSE
    /\ playback_thread = 0
    /\ threads = [i \in ThreadIds |-> NoThread]
    /\ orphans = {}
    /\ call = [c \in Callers |-> NoCall]
    /\ is_currently_speaking = FALSE
    /\ speaking_lock = "free"
    /\ since_speech = 0
    /\ pc = "c299"
    /\ text = <<"s","t","o","p">>
    /\ consecutive_empty = 0
    /\ opc = "s98"
    /\ response \in RawTexts
    /\ in_fallback = FALSE
    /\ exc = FALSE
    /\ audio = FALSE
    /\ events = <<>>
    /\ mpc = "m255"
    /\ time_since_speech = 0
    /\ slept = 0

CleanSpec == CleanInit /\ [][SpeakClean]_vars

\* C17: once speak_response_synchronized has cleaned the reply (line 98),
\* cleaning the cleaned reply again gives the cleaned reply.
SanitizerIdempotent ==
    opc # "s98"
        => clean_response_text(clean_response_text(response))
              = clean_response_text(response)

(***************************************************************************)
(* Playback without the video                                              *)
(***************************************************************************)
\* C18: play_segment never raises for want of the video, and when it returns
\* having started a worker that runs _animated_loop (use_video is false, or the
\* worker's capture did not open), that worker is running for the segment
\* asked for, which is the current mode, and it is the only worker alive.
VideoUnavailableNonFatal ==
    /\ call["main"].pc # "exc"
    /\ (call["main"].pc = "ret" /\ target[playback_thread] = LoopFor(FALSE))
          => /\ threads[playback_thread] = [st |-> "run", seg |-> call["main"].seg]
             /\ current_mode = call["main"].seg
             /\ AliveWorkers = 1

(***************************************************************************)
(* The end of the speak sequence                                           *)
(***************************************************************************)
\* C19 as stated: when the speak sequence writes last_speech_time (line 149)
\* the speaking lock has been released.
StampAfterRelease ==
    [][(opc = "s149" /\ opc' # opc)
          => speaking_lock = "free"]_vars

\* C19, amended: the speak sequence writes last_speech_time in its finally
\* block (line 149) with the speaking lock held during and after the write,
\* and the lock is released next, on leaving the with block of line 105, by
\* no other step.
StampBeforeRelease ==
    [][/\ (opc = "s149" /\ opc' # opc)
            => /\ speaking_lock = "main" /\ speaking_lock' = "main"
               /\ since_speech' = 0
               /\ opc' = "s150"
       /\ (speaking_lock = "main" /\ speaking_lock' = "free")
            => /\ opc = "s150"
               /\ events' = Append(events, "unlock")]_vars

\* The finally block has written last_speech_time and cleared the flag, and
\* the lock is still held.
StampedUnderLock ==
    /\ opc = "s150"
    /\ speaking_lock = "main"
    /\ since_speech = 0
    /\ ~is_currently_speaking
    /\ "audio" \in Range(events)

(***************************************************************************)
(* The reported mode                                                       *)
(***************************************************************************)
\* C21: current_mode is "default" when __init__ is done and is the name of a
\* segment in every state, whatever names play_segment is called with.
ModeIsSegment ==
    /\ current_mode \in Segments
    /\ ManagerInit => current_mode = "default"

\* play_segment("") has executed line 296 while the talking segment was
\* playing.
EmptyNameSetMode ==
    /\ call["main"].pc = "v297"
    /\ call["main"].name = ""
    /\ current_mode = "default"
    /\ \E i \in ThreadIds : threads[i].seg = "talking" /\ threads[i].st # "none"

(***************************************************************************)
(* What the silence monitor leaves alone                                   *)
(***************************************************************************)
\* C22: a step of monitor_silence, its call of play_segment included, changes
\* none of is_currently_speaking, last_speech_time, is_listening, the speaking
\* lock, the position of process_speech and speak_response_synchronized and
\* their locals, nor the capture loop.
MonitorLeavesOrchestrator ==
    [][Monitor => UNCHANGED <<is_currently_speaking, since_speech, is_listening,
                              speaking_lock, orchVars, capVars, call["main"]>>]_vars

\* The monitor's play_segment("default") has returned in the middle of a speak
\* sequence, which goes on with its flag set and the lock held.
MonitorSwitchedDuringSpeech ==
    /\ mpc = "m261"
    /\ call["monitor"].pc = "ret"
    /\ current_mode = "default"
    /\ is_currently_speaking
    /\ speaking_lock = "main"
    /\ opc = "playing"

(***************************************************************************)
(* Shutdown of a session in which turns are taken                          *)
(***************************************************************************)
\* KeyboardInterrupt while playsound plays (line 128): the handler of line 141,
\* except Exception, does not catch it, and the finally block of line 146 runs.
InterruptPlayback ==
    /\ opc = "playing"
    /\ audio' = FALSE
    /\ opc' = "k147"
    /\ UNCHANGED <<runVars, vmVars, call, sessVars, capVars, response, in_fallback, exc,
                   events, monVars>>

\* line 147, finally: self.is_currently_speaking = False
InterruptClearFlag ==
    /\ opc = "k147"
    /\ is_currently_speaking' = FALSE
    /\ opc' = "k149"
    /\ UNCHANGED <<runVars, vmVars, call, speaking_lock, since_speech, capVars,
                   response, in_fallback, exc, audio, events, monVars>>

\* line 149, finally: self.last_speech_time = time.time()
InterruptStamp ==
    /\ opc = "k149"
    /\ since_speech' = 0
    /\ opc' = "k150"
    /\ UNCHANGED <<runVars, vmVars, call, is_currently_speaking, speaking_lock,
                   capVars, response, in_fallback, exc, audio, events, monVars>>

\* The with block of line 105 is left and the lock released; the
\* KeyboardInterrupt passes the handlers of lines 246 and 324, is caught at
\* line 321, the loop is left, and the finally block of run calls cleanup.
InterruptLeaves ==
    /\ opc = "k150"
    /\ speaking_lock' = "free"
    /\ opc' = "idle"
    /\ pc' = "c351"
    /\ response' = <<>>
    /\ in_fallback' = FALSE
    /\ events' = <<>>
    /\ UNCHANGED <<runVars, vmVars, call, is_currently_speaking, since_speech, text,
                   consecutive_empty, exc, audio, monVars>>

\* HologramChatbot.cleanup, called once.
FirstCleanup ==
    \/ CleanupStopListening
    \/ CleanupExecutor
    \/ CleanupVideo
    \/ CleanupVideoReturns
    \/ CleanupReturns
    \/ StopVideo("main")
    \/ ServerShutdown("main")
    \/ RemoveHtml("main")

InterruptNext ==
    \/ Next
    \/ Interrupt
    \/ InterruptPlayback
    \/ InterruptClearFlag
    \/ InterruptStamp
    \/ InterruptLeaves
    \/ FirstCleanup

\* A session with a video manager.
InterruptInit == Init /\ video_manager

\* The session is interrupted while the loop is idle or while a reply is played.
InterruptSpec == InterruptInit /\ [][InterruptNext]_vars

\* C23: once HologramChatbot.cleanup has returned, no playback worker is
\* running, whatever the silence monitor was doing when cleanup began.
ShutdownStopsPlayback ==
    pc = "exit" => AliveWorkers = 0

(***************************************************************************)
(* Superseded playback workers                                             *)
(***************************************************************************)
\* The live workers a stop_video that has returned asked to stop (lines
\* 447-448): the worker playback_thread still refers to while play_segment
\* is between lines 296 and 303, and the workers nothing refers to any more.
\* With the single caller of ManagerSpec every stop_video finds is_playing
\* true and signals.
SupersededAlive ==
    \/ orphans # {}
    \/ /\ call["main"].from = "play_segment"
       /\ call["main"].pc \in {"v296", "v297", "v298", "v301"}
       /\ playback_thread # 0
       /\ is_alive(playback_thread)

\* C24: a worker whose cancellation stop_video has signalled does not find
\* its loop condition true again, so it leaves its loop at its next test and
\* produces no further frame, even after a join that timed out and a
\* play_segment that went on to lines 297-298.
SupersededWorkerStops ==
    SupersededAlive => ~(is_playing /\ ~stop_event)

(***************************************************************************)
(* Workers and the mode between calls                                      *)
(***************************************************************************)
\* No activation of play_segment (or of the manager's cleanup) is in progress.
NoCallInProgress == \A c \in Callers : call[c].pc = "idle"

\* C25: whenever no play_segment call is in progress, every live playback
\* worker was started for the segment current_mode names and is the worker
\* playback_thread refers to, whatever the interleaving of the calls of the
\* capture thread and of the silence monitor was.
WorkersMatchMode ==
    NoCallInProgress
    => /\ orphans = {}
       /\ \A i \in ThreadIds :
            is_alive(i) => i = playback_thread /\ threads[i].seg = current_mode

(***************************************************************************)
(* The segments after HologramVideoManager.__init__ has tested the file    *)
(***************************************************************************)
\* The manager is being constructed and has reached line 46: nothing plays
\* yet, the attributes have the values of lines 17-39, and the file at
\* video_path is any of the files considered.
SegmentInit ==
    /\ video_manager = FALSE
    /\ use_video = FALSE
    /\ video \in ValidVideos \cup {NoVideo}
    /\ fps = 30
    /\ total_frames = 0
    /\ segments = DefaultSegments
    /\ is_listening = FALSE
    /\ target = [i \in ThreadIds |-> "none"]
    /\ current_mode = "default"
    /\ is_playing = FALSE
    /\ stop_event = FALSE
    /\ playback_thread = 0
    /\ threads = [i \in ThreadIds |-> NoThread]
    /\ orphans = {}
    /\ call = [c \in Callers |-> NoCall]
    /\ is_currently_speaking = FALSE
    /\ speaking_lock = "free"
    /\ since_speech = 0
    /\ pc = "v46"
    /\ text = <<>>
    /\ consecutive_empty = 0
    /\ opc = "idle"
    /\ response = <<>>
    /\ in_fallback = FALSE
    /\ exc = FALSE
    /\ audio = FALSE
    /\ events = <<>>
    /\ mpc = "m255"
    /\ time_since_speech = 0
    /\ slept = 0

\* line 46: self.use_video = self.test_video_file().  A file that is missing,
\* does not open or yields no frame returns False before any attribute is
\* written (lines 78-91); otherwise lines 96-97 set fps and total_frames and
\* lines 104-106 shorten the talking segment of a file under 19 seconds.
TestVideoFile ==
    /\ pc = "v46"
    /\ use_video' = video.ok
    /\ fps' = IF video.ok THEN FpsOf(video) ELSE fps
    /\ total_frames' = IF video.ok THEN video.frames ELSE total_frames
    /\ segments' = IF video.ok /\ DurationBelow(video, 19)
                   THEN [segments EXCEPT !["talking"].end = Min(19, IntDuration(video) - 1)]
                   ELSE segments
    /\ pc' = "v49"
    /\ UNCHANGED <<video_manager, is_listening, target, video, vmVars, call, sessVars,
                   text, consecutive_empty, orchVars, monVars>>

SegmentNext == TestVideoFile

SegmentSpec == SegmentInit /\ [][SegmentNext]_vars

\* C26: once test_video_file has validated the file, every segment has
\* start < end; the talking segment's adjusted end stays above its start of
\* 13 seconds.
SegmentsNonEmpty ==
    (pc = "v49" /\ use_video) => \A s \in Segments : segments[s].start < segments[s].end

=============================================================================
